---- MODULE Spec2Model ----
(***************************************************************************)
(* A model of four lesson notebooks of the Data 301 book:                  *)
(*   10.1 Bag of Words and N-Grams       (SpecText)                        *)
(*   10.2 The Vector Space Model         (SpecTF, SpecVSM)                 *)
(*   5.4  Validation and Test Errors     (SpecSplit, SpecVal)              *)
(*   5.1  K-Nearest Neighbors            (SpecKNN)                         *)
(* A notebook is a linear script: its state is its global namespace and    *)
(* the position of the next cell to run; one action per cell.              *)
(***************************************************************************)
EXTENDS Integers, Sequences, FiniteSets, TLC

VARIABLES
    \* ---- 10.1 Bag of Words and N-Grams
    texts,          \* texts["text"]: a Series of documents, each a sequence of characters
    words,          \* the Series of word lists (lines 64-69)
    word_bags,      \* words.apply(Counter) (line 74)
    bigram_bags,    \* words.apply(get_bigrams).apply(Counter) (line 104)
    pcText,         \* the next cell of notebook 10.1
    \* ---- 5.4 Validation and Test Errors
    nb,             \* the notebook's global namespace, a record of its globals
    twin,           \* the namespace of a second run with the same training half
    pcVal,          \* the next cell of notebook 5.4
    \* ---- 5.1 K-Nearest Neighbors for Regression
    housing,        \* the training table
    ties,           \* how this build's sort_values orders equal keys
    i_nearest,      \* line 109: the index labels of the 30 nearest rows
    out118,         \* line 118: the displayed prediction
    X_new,          \* lines 198-199: the grid of new observations
    inds_sorted,    \* per new observation, the local inds_sorted of get_30NN_prediction
    y_new_pred,     \* line 215
    pcKNN,          \* the next cell of notebook 5.1
    \* ---- 10.2 The Vector Space Model
    sms,            \* lines 28-32: the corpus, one record (label, text) per message
    bag_of_words,   \* lines 50-55
    tf,             \* lines 62 and 67: the term-frequency matrix
    df,             \* line 118: the document frequencies
    idf,            \* line 122
    tf_idf,         \* line 126
    vsm,            \* the globals of the scikit-learn sections (lines 134-271)
    pcVSM           \* the next cell of notebook 10.2

textVars == <<texts, words, word_bags, bigram_bags, pcText>>
valVars == <<nb, twin, pcVal>>
knnVars == <<housing, ties, i_nearest, out118, X_new, inds_sorted, y_new_pred, pcKNN>>

vsmVars == <<sms, bag_of_words, tf, df, idf, tf_idf, vsm, pcVSM>>

vars == <<textVars, valVars, knnVars, vsmVars>>

\* A global that no cell has assigned yet.
Unset == "unset"

\* A notebook that is not the one being run.
TextIdle ==
    /\ texts = Unset /\ words = Unset /\ word_bags = Unset
    /\ bigram_bags = Unset /\ pcText = "off"
ValIdle == nb = Unset /\ twin = Unset /\ pcVal = "off"
KNNIdle ==
    /\ housing = Unset /\ ties = Unset /\ i_nearest = Unset /\ out118 = Unset
    /\ X_new = Unset /\ inds_sorted = Unset /\ y_new_pred = Unset /\ pcKNN = "off"
VSMIdle ==
    /\ sms = Unset /\ bag_of_words = Unset /\ tf = Unset /\ df = Unset
    /\ idf = Unset /\ tf_idf = Unset /\ vsm = Unset /\ pcVSM = "off"

(***************************************************************************)
(* Python helpers                                                          *)
(***************************************************************************)
Min(a, b) == IF a <= b THEN a ELSE b
Max(a, b) == IF a >= b THEN a ELSE b

\* The elements of a list.
Range(l) == {l[i] : i \in 1..Len(l)}

\* How many times x occurs in the list l.
Occurrences(l, x) == Cardinality({i \in 1..Len(l) : l[i] = x})

\* The sum of f over the set S of its arguments.
RECURSIVE SumOver(_, _)
SumOver(f, S) ==
    IF S = {} THEN 0
    ELSE LET x == CHOOSE y \in S : TRUE IN f[x] + SumOver(f, S \ {x})

\* The product of the entries of a sequence.
RECURSIVE Product(_)
Product(q) == IF q = <<>> THEN 1 ELSE Head(q) * Product(Tail(q))

\* What a raising library call leaves in place of its result; every result
\* of a call that can raise carries the field `raised`.
ValueError == [raised |-> TRUE, error |-> "ValueError"]

\* s[:stop], Python semantics: a negative stop counts from the end.
SliceTo(s, stop) ==
    LET n == Len(s)
        e == IF stop < 0 THEN Max(n + stop, 0) ELSE Min(stop, n)
    IN  SubSeq(s, 1, e)

\* s[start:], Python semantics, start >= 0.
SliceFrom(s, start) == SubSeq(s, Min(start, Len(s)) + 1, Len(s))

\* zip(a, b): pairs up to the shorter argument.
zip(a, b) == [i \in 1..Min(Len(a), Len(b)) |-> <<a[i], b[i]>>]

(***************************************************************************)
(* Characters. A document is a sequence of one-character strings.          *)
(***************************************************************************)
UpperCase == {"A", "H", "T"}
LowerCase ==
    {"a", "b", "c", "d", "e", "f", "g", "h", "i", "j", "l", "m", "n", "o", "p", "r",
     "s", "t", "u", "w", "y"}
Digits == {"7"}
Underscore == {"_"}
Whitespace == {" "}
\* Characters that are neither letters, digits nor whitespace.
Punctuation == {".", ","} \cup Underscore

\* str.lower() on one character.
LowerChar(c) ==
    CASE c = "A" -> "a"
      [] c = "H" -> "h"
      [] c = "T" -> "t"
      [] OTHER -> c

\* \w of a Python 3 regular expression: letters, digits and the underscore.
IsWordChar(c) == c \in UpperCase \cup LowerCase \cup Digits \cup Underscore
\* \s
IsSpaceChar(c) == c \in Whitespace

\* A chain that forgets .str.lower().
lower_missing(s) == s

\* .str.lower()
lower(s) == [i \in 1..Len(s) |-> LowerChar(s[i])]

\* .str.replace("[^\w\s]", ""): drop every character that matches [^\w\s].
RECURSIVE replace(_)
replace(s) ==
    IF s = <<>> THEN <<>>
    ELSE IF IsWordChar(Head(s)) \/ IsSpaceChar(Head(s))
         THEN <<Head(s)>> \o replace(Tail(s))
         ELSE replace(Tail(s))

\* .str.split(): split on runs of whitespace, no empty words.
RECURSIVE SplitFrom(_, _)
SplitFrom(s, cur) ==
    IF s = <<>> THEN (IF cur = <<>> THEN <<>> ELSE <<cur>>)
    ELSE IF IsSpaceChar(Head(s))
         THEN (IF cur = <<>> THEN <<>> ELSE <<cur>>) \o SplitFrom(Tail(s), <<>>)
         ELSE SplitFrom(Tail(s), Append(cur, Head(s)))

split(s) == SplitFrom(s, <<>>)

\* The chain of lines 64-69 on one document.
Normalize(s) == split(replace(lower(s)))

\* A counter that records presence only (a set, not a multiset).
Counter_presence(l) == [k \in {l[i] : i \in 1..Len(l)} |-> 1]

\* collections.Counter(iterable): one count per distinct element.
RECURSIVE Counter(_)
Counter(l) ==
    IF l = <<>> THEN <<>>
    ELSE LET rest == Counter(SubSeq(l, 1, Len(l) - 1))
             x == l[Len(l)]
         IN  IF x \in DOMAIN rest
             THEN [rest EXCEPT ![x] = @ + 1]
             ELSE [k \in DOMAIN rest \cup {x} |-> IF k = x THEN 1 ELSE rest[k]]

\* Bigrams lined up one word too far: words[i], words[i+2].
get_bigrams_skip(ws) == zip(SliceTo(ws, -1), SliceFrom(ws, 2))

\* get_bigrams(words), lines 96-102.
get_bigrams(ws) == zip(SliceTo(ws, -1), SliceFrom(ws, 1))

(***************************************************************************)
(* Notebook 5.4: data frames                                               *)
(* A DataFrame is a sequence of rows [label, data]: the index label and    *)
(* the row's columns. read_csv gives the RangeIndex 0..n-1.                *)
(***************************************************************************)
Labels(frame) == {frame[i].label : i \in DOMAIN frame}
Index(frame) == [i \in DOMAIN frame |-> frame[i].label]

\* round(): Python 3 rounds a half to the even neighbour. The argument is
\* half/2, a multiple of one half.
RoundHalf(half) ==
    IF half % 2 = 0 THEN half \div 2
    ELSE IF (half \div 2) % 2 = 0 THEN half \div 2 ELSE half \div 2 + 1

\* DataFrame.sample(frac=.5) draws n = round(.5 * len) rows.
SampleSize(len) == RoundHalf(len)

\* One outcome of the sampling: the positions drawn, in the order drawn,
\* without replacement.
IsDraw(frame, draw) ==
    /\ Len(draw) = SampleSize(Len(frame))
    /\ \A i \in DOMAIN draw : draw[i] \in DOMAIN frame
    /\ \A i, j \in DOMAIN draw : i # j => draw[i] # draw[j]

\* housing.sample(frac=.5) with the outcome `draw`.
sample(frame, draw) == [i \in DOMAIN draw |-> frame[draw[i]]]

\* A drop that keeps the rows it was asked to drop.
drop_inverted(frame, labels) == SelectSeq(frame, LAMBDA r : r.label \in labels)

\* DataFrame.drop(labels): every row whose index label is among `labels` goes.
drop(frame, labels) == SelectSeq(frame, LAMBDA r : r.label \notin labels)

\* The globals of notebook 5.4.
Namespace(table) ==
    [housing |-> table, train |-> Unset, val |-> Unset,
     X_train_dict |-> Unset, X_val_dict |-> Unset, y_train |-> Unset, y_val |-> Unset,
     vec |-> Unset, X_train |-> Unset, X_val |-> Unset, scaler |-> Unset,
     X_train_sc |-> Unset, X_val_sc |-> Unset, model |-> Unset,
     y_val_pred |-> Unset, rmse |-> Unset, out156 |-> Unset, out160 |-> Unset,
     calls |-> <<>>]

\* Lines 54-55: train = housing.sample(frac=.5); val = housing.drop(train.index)
Split(env, draw) ==
    LET train == sample(env.housing, draw)
    IN  [env EXCEPT !.train = train, !.val = drop(env.housing, Labels(train))]

(***************************************************************************)
(* Notebook 5.4: the preprocessing and the model (scikit-learn)            *)
(* Exact arithmetic: a mean is kept as sum and count, a variance as the    *)
(* integer V = n * sum(x^2) - sum(x)^2 (the variance is V / n^2), a scaled *)
(* entry as its numerator over the square root of the column's den2, and   *)
(* an RMSE as the fraction under its square root.                          *)
(***************************************************************************)
\* Lines 66-70. The quantitative features all take the same path; the model
\* carries one of them beside the categorical one.
features == <<"Gr Liv Area", "Neighborhood">>
Categorical == {"Neighborhood"}

\* DataFrame.to_dict(orient="records") of frame[features]: one dict per row.
\* `row` remembers the index label the dict was made from; no library call
\* reads it.
to_dict(frame) ==
    [i \in DOMAIN frame |->
        [row |-> frame[i].label,
         items |-> [f \in Range(features) |-> frame[i].data[f]]]]

\* frame["SalePrice"]: a Series, index and values.
SalePrice(frame) ==
    [i \in DOMAIN frame |-> [label |-> frame[i].label, value |-> frame[i].data["SalePrice"]]]

Rows(dicts) == [i \in DOMAIN dicts |-> dicts[i].row]

\* DictVectorizer: a string-valued feature f with value v becomes the column
\* "f=v", a numeric feature the column "f"; feature_names_ is sorted.
ColumnOrder ==
    << <<"Gr Liv Area">>, <<"Neighborhood", "Gilbert">>,
       <<"Neighborhood", "NAmes">>, <<"Neighborhood", "OldTown">> >>

ColumnsOf(d) ==
    {IF f \in Categorical THEN <<f, d.items[f]>> ELSE <<f>> : f \in DOMAIN d.items}

\* vec.fit(dicts): the columns seen in dicts.
DictVectorizer_fit(dicts) ==
    LET seen == UNION {ColumnsOf(dicts[i]) : i \in DOMAIN dicts}
    IN  SelectSeq(ColumnOrder, LAMBDA c : c \in seen)

\* vec.transform(dicts): one row per dict over the fitted columns; a column
\* the dict does not have is 0, a column not fitted is ignored.
DictVectorizer_transform(vec, dicts) ==
    [i \in DOMAIN dicts |->
        [j \in DOMAIN vec |->
            IF Len(vec[j]) = 1 THEN dicts[i].items[vec[j][1]]
            ELSE IF vec[j] \in ColumnsOf(dicts[i]) THEN 1 ELSE 0]]

\* scaler.fit(X): per column the mean (sum / n) and the variance (V / n^2).
StandardScaler_fit(X) ==
    LET n == Len(X)
        cols == DOMAIN X[1]
        sum == [c \in cols |-> SumOver([i \in DOMAIN X |-> X[i][c]], DOMAIN X)]
        sq == [c \in cols |-> SumOver([i \in DOMAIN X |-> X[i][c] * X[i][c]], DOMAIN X)]
    IN  IF n = 0 THEN ValueError
        ELSE [raised |-> FALSE, n |-> n, sum |-> sum, V |-> [c \in cols |-> n * sq[c] - sum[c] * sum[c]]]

\* scale_ squared, times n^2: a column of zero variance is scaled by 1.
Den2(scaler) ==
    [c \in DOMAIN scaler.V |-> IF scaler.V[c] = 0 THEN scaler.n * scaler.n ELSE scaler.V[c]]

\* scaler.transform(X): (x - mean) / scale = (n x - sum) / sqrt(den2).
StandardScaler_transform(scaler, X) ==
    [num |-> [i \in DOMAIN X |-> [c \in DOMAIN scaler.sum |-> scaler.n * X[i][c] - scaler.sum[c]]],
     den2 |-> Den2(scaler)]

\* Line 104 / 144.
n_neighbors == 10

\* model.fit(X, y): keeps the training matrix and the labels; X and y must
\* have the same number of rows.
KNeighborsRegressor_fit(X, y) ==
    IF Len(X.num) # Len(y) THEN ValueError
    ELSE [raised |-> FALSE, X |-> X, y |-> [i \in DOMAIN y |-> y[i].value],
          n_neighbors |-> n_neighbors]

\* The squared Euclidean distance between two scaled rows, times the product
\* of all den2 (a common positive factor, so the order is the same).
Dist2(q, t, den2) ==
    SumOver([c \in DOMAIN den2 |->
                (q[c] - t[c]) * (q[c] - t[c])
                  * Product([e \in DOMAIN den2 |-> IF e = c THEN 1 ELSE den2[e]])],
            DOMAIN den2)

\* The positions of the k training rows nearest to q; of rows at the same
\* distance the earlier one counts as nearer.
Nearest(q, X, k) ==
    LET d == [i \in DOMAIN X.num |-> Dist2(q, X.num[i], X.den2)]
        before(i) == {j \in DOMAIN d : d[j] < d[i] \/ (d[j] = d[i] /\ j < i)}
    IN  {i \in DOMAIN d : Cardinality(before(i)) < k}

\* model.predict(X): per row the mean (sum / k) of the labels of the k
\* nearest training rows; fewer than k training rows is an error.
KNeighborsRegressor_predict(model, X) ==
    IF Len(model.y) < model.n_neighbors THEN ValueError
    ELSE [raised |-> FALSE,
          values |-> [i \in DOMAIN X.num |->
             [sum |-> SumOver(model.y, Nearest(X.num[i], model.X, model.n_neighbors)),
              k |-> model.n_neighbors]]]

\* np.sqrt(((y - y_pred) ** 2).mean()): the fraction under the root.
RMSE(y, y_pred) ==
    IF Len(y) # Len(y_pred) THEN ValueError
    ELSE [raised |-> FALSE,
          sq_num |-> SumOver([i \in DOMAIN y |->
                        (y_pred[i].k * y[i].value - y_pred[i].sum)
                          * (y_pred[i].k * y[i].value - y_pred[i].sum)], DOMAIN y),
          sq_den |-> n_neighbors * n_neighbors * Len(y)]

\* Lines 72-76.
Extract(env) ==
    [env EXCEPT !.X_train_dict = to_dict(env.train),
                !.X_val_dict = to_dict(env.val),
                !.y_train = SalePrice(env.train),
                !.y_val = SalePrice(env.val)]

\* The preprocessing with the vectorizer and the scaler fitted on both halves.
Preprocess_leak(env) ==
    LET vec == DictVectorizer_fit(env.X_train_dict \o env.X_val_dict)
        X_train == DictVectorizer_transform(vec, env.X_train_dict)
        X_val == DictVectorizer_transform(vec, env.X_val_dict)
        scaler == StandardScaler_fit(X_train \o X_val)
    IN  [env EXCEPT !.vec = vec, !.X_train = X_train, !.X_val = X_val,
                    !.scaler = scaler,
                    !.X_train_sc = StandardScaler_transform(scaler, X_train),
                    !.X_val_sc = StandardScaler_transform(scaler, X_val)]

\* Lines 85-95.
Preprocess(env) ==
    LET vec == DictVectorizer_fit(env.X_train_dict)
        X_train == DictVectorizer_transform(vec, env.X_train_dict)
        X_val == DictVectorizer_transform(vec, env.X_val_dict)
        scaler == StandardScaler_fit(X_train)
    IN  [env EXCEPT !.vec = vec, !.X_train = X_train, !.X_val = X_val,
                    !.scaler = scaler,
                    !.X_train_sc = StandardScaler_transform(scaler, X_train),
                    !.X_val_sc = StandardScaler_transform(scaler, X_val)]

\* Lines 104-105.
Fit(env) == [env EXCEPT !.model = KNeighborsRegressor_fit(env.X_train_sc, env.y_train)]

\* Lines 110-112.
Predict(env) ==
    LET y_val_pred == KNeighborsRegressor_predict(env.model, env.X_val_sc)
    IN  [env EXCEPT !.y_val_pred = y_val_pred, !.rmse = RMSE(env.y_val, y_val_pred.values)]

\* The body of get_val_error, lines 131-151, on the two lists of dicts it
\* vectorizes and the two label Series it is given.
val_error(fit_dicts, y_train, val_dicts, y_val) ==
    LET vec == DictVectorizer_fit(fit_dicts)
        X_train == DictVectorizer_transform(vec, fit_dicts)
        X_val == DictVectorizer_transform(vec, val_dicts)
        scaler == StandardScaler_fit(X_train)
        X_train_sc == StandardScaler_transform(scaler, X_train)
        X_val_sc == StandardScaler_transform(scaler, X_val)
        model == KNeighborsRegressor_fit(X_train_sc, y_train)
        y_val_pred == KNeighborsRegressor_predict(model, X_val_sc)
    IN  IF model.raised THEN model
        ELSE IF y_val_pred.raised THEN y_val_pred
        ELSE RMSE(y_val, y_val_pred.values)

\* A get_val_error that predicts on the rows it was fitted on.
get_val_error_training(env, X_train, y_train, X_val, y_val) ==
    val_error(env.X_train_dict, y_train, env.X_train_dict, y_val)

\* get_val_error(X_train, y_train, X_val, y_val), lines 129-151. Lines 133-135
\* vectorize the globals X_train_dict and X_val_dict and assign the results to
\* the parameters X_train and X_val, whose values at the call are never read.
get_val_error(env, X_train, y_train, X_val, y_val) ==
    val_error(env.X_train_dict, y_train, env.X_val_dict, y_val)

\* The observations one call of get_val_error touches: the rows its model is
\* fitted on (features and labels), the rows it predicts for and the rows
\* whose labels the predictions are compared with.
get_val_error_uses(env, X_train, y_train, X_val, y_val) ==
    LET raised == Len(env.X_train_dict) # Len(y_train)
                    \/ Len(y_train) < n_neighbors
    IN  [fit_rows |-> Rows(env.X_train_dict),
         fit_labels |-> Index(y_train),
         pred_rows |-> IF raised THEN <<>> ELSE Rows(env.X_val_dict),
         truth |-> IF raised THEN <<>> ELSE Index(y_val)]

\* Line 156: get_val_error(X_train, y_train, X_val, y_val)
Call156(env) ==
    [env EXCEPT !.out156 = get_val_error(env, env.X_train, env.y_train, env.X_val, env.y_val),
                !.calls = Append(@, get_val_error_uses(env, env.X_train, env.y_train,
                                                       env.X_val, env.y_val))]

\* Line 160: get_val_error(X_val, y_val, X_train, y_train)
Call160(env) ==
    [env EXCEPT !.out160 = get_val_error(env, env.X_val, env.y_val, env.X_train, env.y_train),
                !.calls = Append(@, get_val_error_uses(env, env.X_val, env.y_val,
                                                       env.X_train, env.y_train))]


(***************************************************************************)
(* Notebook 5.4: the tables, the draws and the cells                       *)
(***************************************************************************)
MaxRows == 6
MaxPatterns == 3
MaxOffsets == 4

\* The columns of row i of the table of pattern pat.
RowData(i, pat) ==
    [c \in {"Gr Liv Area", "Neighborhood", "SalePrice"} |->
        CASE c = "Gr Liv Area" -> (i * pat + i \div 4) % 3
          [] c = "Neighborhood" ->
                IF (pat = 1 /\ i < 12) \/ (pat # 1 /\ (i + pat) % 3 # 0)
                THEN "NAmes" ELSE "OldTown"
          [] c = "SalePrice" -> (i * i + pat * i + i \div 5) % 4]

\* housing as read_csv returns it: n rows under the RangeIndex 0..n-1.
Housing(n, pat) == [i \in 1..n |-> [label |-> i - 1, data |-> RowData(i - 1, pat)]]

Patterns == 1..MaxPatterns
SmallTables == {Housing(n, pat) : n \in 0..MaxRows, pat \in Patterns}
\* Tables whose halves are larger than n_neighbors, of even and of odd length.
FullTables ==
    {Housing(n, pat) : n \in {2 * n_neighbors + 2, 2 * n_neighbors + 3}, pat \in Patterns}

\* The outcomes of the sampling the model follows: every ordered draw on a
\* small table, and on a full table the draws that step through the rows
\* with a stride from an offset.
Draws(frame) ==
    LET n == Len(frame)
        k == SampleSize(n)
    IN  IF n <= MaxRows
        THEN {d \in [1..k -> 1..n] : IsDraw(frame, d)}
        ELSE {d \in {[i \in 1..k |-> ((a * (i - 1) + b) % n) + 1] :
                        a \in {1, 3, 5}, b \in 0..(MaxOffsets - 1)} : IsDraw(frame, d)}

\* Another validation half for the second run: other labels and a category
\* the training half does not have, or fewer rows with other features.
TwinVariants == {"same", "relabelled", "shorter"}
TwinVal(val, variant) ==
    CASE variant = "same" -> val
      [] variant = "relabelled" ->
            [i \in DOMAIN val |->
                [val[i] EXCEPT !.data["Neighborhood"] = "Gilbert",
                               !.data["SalePrice"] = 3 - @]]
      [] variant = "shorter" ->
            [i \in 1..(Len(val) - 1) |->
                [val[i] EXCEPT !.data["Gr Liv Area"] = 2 - @]]

\* Lines 54-55 in both runs: the same draw, the twin with its own validation half.
CellSplit ==
    /\ pcVal = "split"
    /\ \E draw \in Draws(nb.housing), variant \in TwinVariants :
          LET env == Split(nb, draw)
              val2 == TwinVal(env.val, variant)
          IN  /\ nb' = env
              /\ twin' = [env EXCEPT !.val = val2, !.housing = env.train \o val2]
    /\ pcVal' = "extract"
    /\ UNCHANGED <<textVars, knnVars, vsmVars>>

\* Lines 72-76.
CellExtract ==
    /\ pcVal = "extract"
    /\ nb' = Extract(nb)
    /\ twin' = Extract(twin)
    /\ pcVal' = "preprocess"
    /\ UNCHANGED <<textVars, knnVars, vsmVars>>

\* Lines 82-95.
CellPreprocess ==
    /\ pcVal = "preprocess"
    /\ nb' = Preprocess(nb)
    /\ twin' = Preprocess(twin)
    /\ pcVal' = "fit"
    /\ UNCHANGED <<textVars, knnVars, vsmVars>>

\* Lines 101-105.
CellFit ==
    /\ pcVal = "fit"
    /\ nb' = Fit(nb)
    /\ twin' = Fit(twin)
    /\ pcVal' = "predict"
    /\ UNCHANGED <<textVars, knnVars, vsmVars>>

\* Lines 110-112.
CellPredict ==
    /\ pcVal = "predict"
    /\ nb' = Predict(nb)
    /\ twin' = Predict(twin)
    /\ pcVal' = "call156"
    /\ UNCHANGED <<textVars, knnVars, vsmVars>>

\* Line 156. A raising call stops the run.
CellCall156 ==
    /\ pcVal = "call156"
    /\ nb' = Call156(nb)
    /\ twin' = Call156(twin)
    /\ pcVal' = IF nb'.out156.raised THEN "error" ELSE "call160"
    /\ UNCHANGED <<textVars, knnVars, vsmVars>>

\* Line 160. A raising call stops the run.
CellCall160 ==
    /\ pcVal = "call160"
    /\ nb' = Call160(nb)
    /\ twin' = Call160(twin)
    /\ pcVal' = IF nb'.out160.raised THEN "error" ELSE "done"
    /\ UNCHANGED <<textVars, knnVars, vsmVars>>

\* After the cell of lines 28-30 has read the table.
InitSplit ==
    /\ \E table \in SmallTables : nb = Namespace(table) /\ twin = Namespace(table)
    /\ pcVal = "split"
    /\ TextIdle
    /\ KNNIdle
    /\ VSMIdle

InitVal ==
    /\ \E table \in FullTables : nb = Namespace(table) /\ twin = Namespace(table)
    /\ pcVal = "split"
    /\ TextIdle
    /\ KNNIdle
    /\ VSMIdle

NextSplit == CellSplit

NextVal ==
    \/ CellSplit
    \/ CellExtract
    \/ CellPreprocess
    \/ CellFit
    \/ CellPredict
    \/ CellCall156
    \/ CellCall160

\* The split alone, on every small table with every draw.
SpecSplit == InitSplit /\ [][NextSplit]_vars

\* The whole notebook on the full tables.
SpecVal == InitVal /\ [][NextVal]_vars

(***************************************************************************)
(* Notebook 10.1: the corpus and the cells                                 *)
(***************************************************************************)
MaxWords == 4

\* Whitespace-free tokens the documents are made of; the empty token gives
\* leading, trailing and doubled spaces.
Tokens == {<<>>, <<"a">>, <<"b">>, <<"A">>, <<"a", ",">>, <<"a", "_">>}

RECURSIVE JoinSpace(_)
JoinSpace(ts) ==
    IF ts = <<>> THEN <<>>
    ELSE IF Len(ts) = 1 THEN ts[1]
    ELSE ts[1] \o <<" ">> \o JoinSpace(Tail(ts))

Docs == {JoinSpace(ts) : ts \in UNION {[1..n -> Tokens] : n \in 0..MaxWords}}

\* The two example sentences of the N-Grams section (lines 80-81).
Sentence1 ==
    <<"T","h","e"," ","d","o","g"," ","b","i","t"," ","h","e","r"," ",
      "o","w","n","e","r",".">>
Sentence2 ==
    <<"H","e","r"," ","d","o","g"," ","b","i","t"," ","t","h","e"," ",
      "o","w","n","e","r",".">>

Corpora ==
    {<<d>> : d \in Docs}
      \cup {<<t1, t2>> : t1 \in Tokens, t2 \in Tokens}
      \cup {<<Sentence1, Sentence2>>}

\* After the cell of lines 28-33 has read the corpus.
InitText ==
    /\ texts \in Corpora
    /\ words = Unset
    /\ word_bags = Unset
    /\ bigram_bags = Unset
    /\ pcText = "words"
    /\ ValIdle
    /\ KNNIdle
    /\ VSMIdle

\* Lines 64-69: words = texts["text"].str.lower().str.replace(...).str.split()
CellWords ==
    /\ pcText = "words"
    /\ words' = [i \in DOMAIN texts |-> Normalize(texts[i])]
    /\ pcText' = "bag_of_words"
    /\ UNCHANGED <<texts, word_bags, bigram_bags>>
    /\ UNCHANGED <<valVars, knnVars, vsmVars>>

\* Line 74: words.apply(Counter)
CellBagOfWords ==
    /\ pcText = "bag_of_words"
    /\ word_bags' = [i \in DOMAIN words |-> Counter(words[i])]
    /\ pcText' = "bigrams"
    /\ UNCHANGED <<texts, words, bigram_bags>>
    /\ UNCHANGED <<valVars, knnVars, vsmVars>>

\* Line 104: words.apply(get_bigrams).apply(Counter)
CellBigrams ==
    /\ pcText = "bigrams"
    /\ bigram_bags' = [i \in DOMAIN words |-> Counter(get_bigrams(words[i]))]
    /\ pcText' = "done"
    /\ UNCHANGED <<texts, words, word_bags>>
    /\ UNCHANGED <<valVars, knnVars, vsmVars>>

NextText == CellWords \/ CellBagOfWords \/ CellBigrams

SpecText == InitText /\ [][NextText]_vars

(***************************************************************************)
(* Properties of notebook 10.1                                             *)
(***************************************************************************)

\* The number of elements of a bag, with multiplicity.
BagTotal(bag) == SumOver(bag, DOMAIN bag)

\* C7: get_bigrams yields exactly the pairs (w[i], w[i+1]), i = 0..n-2, in
\* that order: n-1 pairs for n >= 2 words, none for an empty or one-word
\* list; the bag of bigrams counts each pair of consecutive words once per
\* occurrence.
C7_Bigrams ==
    pcText = "done" =>
        \A d \in 1..Len(words) :
            LET w == words[d]
                n == Len(w)
                bg == get_bigrams(w)
                bag == bigram_bags[d]
            IN  /\ Len(bg) = (IF n >= 2 THEN n - 1 ELSE 0)
                /\ \A i \in 1..Len(bg) : bg[i] = <<w[i], w[i + 1]>>
                /\ DOMAIN bag = {<<w[i], w[i + 1]>> : i \in 1..(n - 1)}
                /\ \A p \in DOMAIN bag :
                       bag[p] = Cardinality({i \in 1..(n - 1) : <<w[i], w[i + 1]>> = p})

\* A document of four words in which one bigram occurs twice and another once.
C7_Witness ==
    /\ pcText = "done"
    /\ \E d \in 1..Len(words) :
          /\ Len(words[d]) = 4
          /\ \E p, q \in DOMAIN bigram_bags[d] :
                bigram_bags[d][p] = 2 /\ bigram_bags[d][q] = 1

\* C8: Counter maps each distinct word of the list to the number of times it
\* occurs; the counts sum to the length of the list; two lists that are
\* permutations of each other get the same bag.
C8_BagOfWords ==
    pcText \in {"bigrams", "done"} =>
        \A d \in 1..Len(words) :
            LET w == words[d]
                bag == word_bags[d]
            IN  /\ DOMAIN bag = Range(w)
                /\ \A x \in Range(w) : bag[x] = Occurrences(w, x)
                /\ BagTotal(bag) = Len(w)
                /\ \A perm \in Permutations(1..Len(w)) :
                       Counter([i \in 1..Len(w) |-> w[perm[i]]]) = bag

\* A word list with a repeated word and a second word, so that order and
\* multiplicity both matter.
C8_Witness ==
    /\ pcText = "bigrams"
    /\ \E d \in 1..Len(words) :
          /\ Len(words[d]) >= 3
          /\ \E x, y \in Range(words[d]) : word_bags[d][x] = 2 /\ word_bags[d][y] = 1

\* C9: after normalization the two example sentences have the same bag of
\* words (the same 5 words); each bag of bigrams holds 4 bigrams and the two
\* share exactly one, "dog bit".
C9_Sentences ==
    (pcText = "done" /\ texts = <<Sentence1, Sentence2>>) =>
        /\ word_bags[1] = word_bags[2]
        /\ Cardinality(DOMAIN word_bags[1]) = 5
        /\ BagTotal(word_bags[1]) = 5
        /\ BagTotal(bigram_bags[1]) = 4
        /\ BagTotal(bigram_bags[2]) = 4
        /\ DOMAIN bigram_bags[1] \cap DOMAIN bigram_bags[2]
             = {<< <<"d", "o", "g">>, <<"b", "i", "t">> >>}

C9_Witness ==
    /\ pcText = "done"
    /\ texts = <<Sentence1, Sentence2>>
    /\ <<"o", "w", "n", "e", "r">> \in DOMAIN word_bags[1]

\* A token with its letters lower-cased and its punctuation taken off: two
\* tokens with the same fold differ only in letter case or in attached
\* punctuation.
Fold(t, punct) == SelectSeq(lower(t), LAMBDA c : c \notin punct)

\* The three parts of the normalization claim, for a given reading of
\* "punctuation character".
NormalizationClaim(punct) ==
    pcText # "words" =>
        /\ \A d \in 1..Len(words) : \A w \in Range(words[d]) : \A c \in Range(w) :
               c \notin UpperCase /\ c \notin punct
        /\ (Len(texts) = 2 /\ Fold(texts[1], punct) = Fold(texts[2], punct))
               => words[1] = words[2]
        /\ \A d \in 1..Len(words) :
               LET t == replace(lower(texts[d]))
               IN  /\ replace(lower(t)) = t
                   /\ Normalize(t) = words[d]
                   /\ Normalize(JoinSpace(words[d])) = words[d]

\* C10: after lower-casing, removing [^\w\s] and splitting on whitespace, no
\* word contains an upper-case letter or a punctuation character; two tokens
\* that differ only in letter case or attached punctuation become the same
\* word; normalizing a normalized text changes nothing.
C10_Normalization == NormalizationClaim(Punctuation)

\* What the code does guarantee: the same with the underscore, which \w
\* matches, not counted as punctuation.
NormalizationUpToUnderscore == NormalizationClaim(Punctuation \ Underscore)

(***************************************************************************)
(* Properties of notebook 5.4                                              *)
(***************************************************************************)
\* How many times get_val_error has predicted for the row of index label l.
TimesPredicted(env, l) ==
    Cardinality({<<c, i>> \in (DOMAIN env.calls) \X (0..Len(env.housing)) :
                    i \in DOMAIN env.calls[c].pred_rows /\ env.calls[c].pred_rows[i] = l})

\* C2: get_val_error(X_val, y_val, X_train, y_train) fits the model on the
\* features and labels of the validation half and returns the RMSE of its
\* predictions on the features and labels of the training half.
C2_ReversedRoles ==
    Len(nb.calls) = 2 =>
        nb.out160 = val_error(nb.X_val_dict, nb.y_val, nb.X_train_dict, nb.y_train)

\* C3: over the two calls every observation of the data set is predicted for
\* exactly once, by a model fitted on data that does not include it.
C3_CrossValidation ==
    Len(nb.calls) = 2 =>
        \A l \in Labels(nb.housing) :
            /\ TimesPredicted(nb, l) = 1
            /\ \A c \in DOMAIN nb.calls :
                   l \in Range(nb.calls[c].pred_rows) =>
                       l \notin Range(nb.calls[c].fit_rows) \cup Range(nb.calls[c].fit_labels)

\* C4: on the original split get_val_error(X_train, y_train, X_val, y_val)
\* returns the validation RMSE that the inline cells computed before it.
C4_SameAsInline ==
    Len(nb.calls) >= 1 =>
        /\ ~nb.out156.raised
        /\ nb.out156 = nb.rmse
        /\ nb.calls[1].fit_rows = Index(nb.train)
        /\ nb.calls[1].pred_rows = Index(nb.val)

\* The first call has returned a non-zero error made of predictions that
\* differ from row to row.
C4_Witness ==
    /\ pcVal = "call160"
    /\ nb.out156.sq_num > 0
    /\ \E i, j \in DOMAIN nb.y_val_pred.values :
          nb.y_val_pred.values[i] # nb.y_val_pred.values[j]

\* C5: train and val partition housing: no row is in both, every row is in
\* exactly one of them, and the two halves differ in size by at most one row
\* (by none when the row count is even).
C5_Partition ==
    pcVal # "split" =>
        /\ Labels(nb.train) \cap Labels(nb.val) = {}
        /\ Labels(nb.train) \cup Labels(nb.val) = Labels(nb.housing)
        /\ \A i \in DOMAIN nb.housing :
               Occurrences(nb.train \o nb.val, nb.housing[i]) = 1
        /\ Len(nb.train) + Len(nb.val) = Len(nb.housing)
        /\ Len(nb.train) - Len(nb.val) \in {-1, 0, 1}
        /\ Len(nb.housing) % 2 = 0 => Len(nb.train) = Len(nb.val)

\* A table of odd length split into halves of different size.
C5_Witness ==
    /\ pcVal # "split"
    /\ Len(nb.housing) = 5
    /\ Len(nb.train) = 2
    /\ Len(nb.val) = 3

\* C6: what the inline pipeline learns (categories, means, standard
\* deviations, the fitted model) is the same in two runs with the same
\* training half, whatever the validation half holds.
C6_FitOnTrainingOnly ==
    /\ pcVal # "split" => nb.train = twin.train
    /\ pcVal \notin {"split", "extract", "preprocess"} =>
          /\ nb.vec = twin.vec
          /\ nb.scaler = twin.scaler
          /\ nb.X_train_sc = twin.X_train_sc
    /\ pcVal \notin {"split", "extract", "preprocess", "fit"} =>
          nb.model = twin.model

\* Two runs past the prediction whose validation halves differ, one of them
\* with a category the vectorizer has not learned, and whose predictions differ.
C6_Witness ==
    /\ pcVal = "call156"
    /\ nb.val # twin.val
    /\ \E i \in DOMAIN twin.X_val_dict :
          ColumnsOf(twin.X_val_dict[i]) \ Range(twin.vec) # {}
    /\ nb.y_val_pred # twin.y_val_pred

(***************************************************************************)
(* Notebook 5.1: k-nearest neighbours from scratch (pandas)                *)
(* Areas are in thousands of square feet. A mean is kept as sum and count; *)
(* count 0 is the NaN that the mean of no label is.                        *)
(***************************************************************************)
\* Lines 109, 179, 209: the [:30] of the sorted index.
k_nearest == 30

\* Series.sort_values() read from the far end.
sort_values_descending(dists, order) ==
    LET n == Len(dists)
        before(i) == {j \in 1..n : dists[j].value > dists[i].value
                                      \/ (dists[j].value = dists[i].value /\ j > i)}
    IN  [p \in 1..n |-> dists[CHOOSE i \in 1..n : Cardinality(before(i)) = p - 1]]

\* Series.sort_values(): ascending by value, the index labels moving with
\* the values. The default sort is not stable: `order` is the way this build
\* leaves equal values, in their original order or reversed.
sort_values(dists, order) ==
    LET n == Len(dists)
        tie(j, i) == IF order = "stable" THEN j < i ELSE j > i
        before(i) == {j \in 1..n : dists[j].value < dists[i].value
                                      \/ (dists[j].value = dists[i].value /\ tie(j, i))}
    IN  [p \in 1..n |-> dists[CHOOSE i \in 1..n : Cardinality(before(i)) = p - 1]]

\* y_train.loc[labels].mean(): the mean of the labels of the rows named.
MeanAt(frame, labels) ==
    LET picked == [p \in DOMAIN labels |->
                      SumOver([i \in DOMAIN frame |->
                                  IF frame[i].label = labels[p]
                                  THEN frame[i].data["SalePrice"] ELSE 0], DOMAIN frame)]
    IN  [sum |-> SumOver(picked, DOMAIN picked), count |-> Len(labels)]

\* Lines 82-87: n * sum(x^2) - sum(x)^2 of a column, n (n - 1) times the
\* square of X_train_std.
ColumnV(frame, c) ==
    LET n == Len(frame)
        sum == SumOver([i \in DOMAIN frame |-> frame[i].data[c]], DOMAIN frame)
        sq == SumOver([i \in DOMAIN frame |-> frame[i].data[c] * frame[i].data[c]],
                      DOMAIN frame)
    IN  n * sq - sum * sum

\* Lines 82-83.
InlineFeatures == <<"Gr Liv Area", "Bedroom AbvGr">>
\* Lines 93-95, the area in thousands of square feet.
x_new == [c \in Range(InlineFeatures) |-> IF c = "Gr Liv Area" THEN 4 ELSE 3]

\* Line 103 without its square root: the squared distance between the
\* standardized row and the standardized x_new, times n (n - 1) and the
\* column V's. The mean cancels in the difference. A column whose standard
\* deviation is 0 or NaN is NaN after standardizing and sum(axis=1) skips it.
ScaledDist2(frame, i, x) ==
    LET cols == Range(InlineFeatures)
        V == [c \in cols |-> ColumnV(frame, c)]
        others(c) == [e \in cols |-> IF e = c \/ V[e] = 0 THEN 1 ELSE V[e]]
        term == [c \in cols |->
                    IF V[c] = 0 THEN 0
                    ELSE (frame[i].data[c] - x[c]) * (frame[i].data[c] - x[c])
                           * Product([j \in 1..Len(InlineFeatures) |-> others(c)[InlineFeatures[j]]])]
    IN  SumOver(term, cols)

\* Lines 103-104: dists, a Series over the index of the table.
InlineDists(frame) ==
    [i \in DOMAIN frame |-> [label |-> frame[i].label, value |-> ScaledDist2(frame, i, x_new)]]

\* Line 208: ((X_train - x_new) ** 2).sum(axis=1) with X_train the one
\* column of line 193.
Dists(frame, x) ==
    [i \in DOMAIN frame |->
        [label |-> frame[i].label,
         value |-> (frame[i].data["Gr Liv Area"] - x) * (frame[i].data["Gr Liv Area"] - x)]]

\* Line 209: dists.sort_values().index[:30]
NearestLabels(dists, order) == Index(SliceTo(sort_values(dists, order), k_nearest))

\* Lines 205-210.
get_30NN_prediction(frame, x, order) == MeanAt(frame, NearestLabels(Dists(frame, x), order))

\* np.arange(start, stop, step)
arange(start, stop, step) ==
    [i \in 1..((stop - start + step - 1) \div step) |-> start + (i - 1) * step]

(***************************************************************************)
(* Notebook 5.1: the tables and the cells                                  *)
(***************************************************************************)
MaxKnnRows == 32

KnnRowData(i, pat) ==
    [c \in {"Gr Liv Area", "Bedroom AbvGr", "SalePrice"} |->
        CASE c = "Gr Liv Area" -> (i * pat + i \div 3) % 6
          [] c = "Bedroom AbvGr" -> IF pat = 1 THEN 2 ELSE (i + pat * (i \div 2)) % 4
          [] c = "SalePrice" -> (i * i + pat + i \div 7) % 4]

KnnTables ==
    {[i \in 1..n |-> [label |-> i - 1, data |-> KnnRowData(i - 1, pat)]] :
        n \in 1..MaxKnnRows, pat \in Patterns}

\* After the cell of lines 51-58 has read the table.
InitKNN ==
    /\ housing \in KnnTables
    /\ ties \in {"stable", "reversed"}
    /\ i_nearest = Unset /\ out118 = Unset /\ X_new = Unset
    /\ inds_sorted = Unset /\ y_new_pred = Unset
    /\ pcKNN = "inline"
    /\ TextIdle
    /\ ValIdle
    /\ VSMIdle

\* Lines 82-118: the two-feature prediction for x_new.
CellInline ==
    /\ pcKNN = "inline"
    /\ i_nearest' = NearestLabels(InlineDists(housing), ties)
    /\ out118' = MeanAt(housing, i_nearest')
    /\ pcKNN' = "grid"
    /\ UNCHANGED <<housing, ties, X_new, inds_sorted, y_new_pred>>
    /\ UNCHANGED <<textVars, valVars, vsmVars>>

\* Lines 193-199: the grid from 0 to 6000 square feet, here in steps of 1000.
CellGrid ==
    /\ pcKNN = "grid"
    /\ X_new' = arange(0, 6, 1)
    /\ pcKNN' = "apply"
    /\ UNCHANGED <<housing, ties, i_nearest, out118, inds_sorted, y_new_pred>>
    /\ UNCHANGED <<textVars, valVars, vsmVars>>

\* Line 215: y_new_pred = X_new.apply(get_30NN_prediction, axis=1)
CellApply ==
    /\ pcKNN = "apply"
    /\ inds_sorted' = [j \in DOMAIN X_new |-> NearestLabels(Dists(housing, X_new[j]), ties)]
    /\ y_new_pred' = [j \in DOMAIN X_new |-> get_30NN_prediction(housing, X_new[j], ties)]
    /\ pcKNN' = "done"
    /\ UNCHANGED <<housing, ties, i_nearest, out118, X_new>>
    /\ UNCHANGED <<textVars, valVars, vsmVars>>

NextKNN == CellInline \/ CellGrid \/ CellApply

SpecKNN == InitKNN /\ [][NextKNN]_vars

(***************************************************************************)
(* Properties of notebook 5.1                                              *)
(***************************************************************************)
\* The rows named by `labels` are `size` different rows of the table, none
\* of them farther away (by dists) than a row left out, and pred is the mean
\* of their labels.
IsMeanOfNearest(pred, labels, dists, size) ==
    LET chosen == {i \in DOMAIN housing : housing[i].label \in Range(labels)}
    IN  /\ Len(labels) = size
        /\ Cardinality(chosen) = size
        /\ \A i \in chosen : \A r \in (DOMAIN housing) \ chosen :
               dists[i].value <= dists[r].value
        /\ pred.count = size
        /\ pred.sum = SumOver([i \in DOMAIN housing |-> housing[i].data["SalePrice"]], chosen)

\* Both predictions of the notebook are means over `size` nearest rows.
NearestMeanClaim(size) ==
    /\ pcKNN \in {"grid", "apply", "done"} =>
          IsMeanOfNearest(out118, i_nearest, InlineDists(housing), size)
    /\ pcKNN = "done" =>
          \A j \in DOMAIN X_new :
              IsMeanOfNearest(y_new_pred[j], inds_sorted[j], Dists(housing, X_new[j]), size)

\* C1 as stated: for any training table and any query point the prediction
\* is the mean of the labels of exactly the k = 30 training rows nearest to
\* the query.
C1_Exactly30 == NearestMeanClaim(k_nearest)

\* C1 as amended: the prediction is the mean of the labels of the
\* min(30, n) rows nearest to the query, n the number of training rows.
C1_NearestMean == NearestMeanClaim(Min(k_nearest, Len(housing)))

\* A table of more than 30 rows where the cut leaves some rows out and the
\* predictions differ along the grid.
C1_Witness ==
    /\ pcKNN = "done"
    /\ Len(housing) > k_nearest
    /\ \E j, l \in DOMAIN X_new : y_new_pred[j] # y_new_pred[l]
    /\ out118.count = k_nearest

(***************************************************************************)
(* Notebook 10.2: the term-frequency matrix from scratch (pandas)          *)
(* sms is a frame like those of notebook 5.4: rows [label, data], the      *)
(* labels the RangeIndex of read_csv, the data the columns "label" and     *)
(* "text". A cell of a float matrix is a record with the field `nan`.      *)
(***************************************************************************)
\* Line 51: the stop of the slice sms.loc[:100, "text"].
loc_stop == 100

\* frame.loc[:stop, column]: a slice by index LABEL, both ends included;
\* a Series, index and values.
loc(frame, stop, column) ==
    LET kept == SelectSeq(frame, LAMBDA r : r.label <= stop)
    IN  [i \in DOMAIN kept |-> [label |-> kept[i].label, value |-> kept[i].data[column]]]

\* [A-Za-z]
IsLetter(c) == c \in UpperCase \cup LowerCase

\* .str.replace("[^A-Za-z\s]", ""): drop every character that is neither a
\* letter nor whitespace (line 53).
RECURSIVE replace_non_letters(_)
replace_non_letters(s) ==
    IF s = <<>> THEN <<>>
    ELSE IF IsLetter(Head(s)) \/ IsSpaceChar(Head(s))
         THEN <<Head(s)>> \o replace_non_letters(Tail(s))
         ELSE replace_non_letters(Tail(s))

\* The chain of lines 51-54 on one message.
LetterWords(s) == split(replace_non_letters(lower(s)))

\* Floats: NaN and the numbers.
NaN == [nan |-> TRUE, value |-> 0]
Float(x) == [nan |-> FALSE, value |-> x]

\* pd.DataFrame(list_of_dicts): one row per dict, one column per key of any
\* dict, NaN where a dict lacks the key; the index is a new RangeIndex.
DataFrame(dicts) ==
    LET columns == UNION {DOMAIN dicts[i] : i \in DOMAIN dicts}
    IN  [columns |-> columns,
         rows |-> [i \in DOMAIN dicts |->
                     [t \in columns |->
                         IF t \in DOMAIN dicts[i] THEN Float(dicts[i][t]) ELSE NaN]]]

\* A fillna that leaves the frame as it is.
fillna_skip(frame, v) == frame

\* DataFrame.fillna(v): every NaN cell becomes v.
fillna(frame, v) ==
    [columns |-> frame.columns,
     rows |-> [i \in DOMAIN frame.rows |->
                 [t \in frame.columns |->
                     IF frame.rows[i][t].nan THEN Float(v) ELSE frame.rows[i][t]]]]

\* (tf > 0).sum(axis=0): per column the number of rows whose cell is > 0
\* (NaN > 0 is False).
DocumentFrequencies(frame) ==
    [t \in frame.columns |->
        Cardinality({i \in DOMAIN frame.rows :
                        ~frame.rows[i][t].nan /\ frame.rows[i][t].value > 0})]

RECURSIVE GCD(_, _)
GCD(x, y) == IF y = 0 THEN x ELSE GCD(y, x % y)

\* x / y of two counts, not both 0: the quotient in lowest terms (den = 0 is inf).
true_divide(x, y) == [num |-> x \div GCD(x, y), den |-> y \div GCD(x, y)]

\* A logarithm is kept exactly: [coef, num, den] is coef * ln(num / den).
\* It is 0.0 exactly when coef = 0 or num = den (ln 1.0 = 0.0).
LogZero == [nan |-> FALSE, coef |-> 0, num |-> 1, den |-> 1]

\* np.log(q) of a quotient in lowest terms.
log(q) == IF q.num = q.den THEN LogZero
          ELSE [nan |-> FALSE, coef |-> 1, num |-> q.num, den |-> q.den]

\* An idf with 1 added to the denominator (the variant of line 106).
InverseDocumentFrequencies_plus1(n, freq) ==
    [t \in DOMAIN freq |-> log(true_divide(n, freq[t] + 1))]

\* np.log(len(tf) / df), line 122.
InverseDocumentFrequencies(n, freq) ==
    [t \in DOMAIN freq |-> log(true_divide(n, freq[t]))]

\* count * weight of a float count and a logarithm; 0 * inf is NaN.
Times(x, w) ==
    IF x.nan \/ w.nan THEN [LogZero EXCEPT !.nan = TRUE]
    ELSE IF w.coef # 0 /\ (w.num = 0 \/ w.den = 0)
         THEN (IF x.value = 0 THEN [LogZero EXCEPT !.nan = TRUE]
               ELSE [w EXCEPT !.coef = x.value * w.coef])
    ELSE IF x.value = 0 \/ w.coef = 0 THEN LogZero
    ELSE [w EXCEPT !.coef = x.value * w.coef]

\* tf * idf, line 126: the Series is aligned with the columns of the frame
\* and multiplies every row.
TfIdf(frame, weights) ==
    [columns |-> frame.columns,
     rows |-> [i \in DOMAIN frame.rows |->
                 [t \in frame.columns |-> Times(frame.rows[i][t], weights[t])]]]

(***************************************************************************)
(* Notebook 10.2: scikit-learn's vectorizers                               *)
(***************************************************************************)
\* The maximal runs of \w characters of s.
RECURSIVE WordRuns(_, _)
WordRuns(s, cur) ==
    IF s = <<>> THEN (IF cur = <<>> THEN <<>> ELSE <<cur>>)
    ELSE IF IsWordChar(Head(s))
         THEN WordRuns(Tail(s), Append(cur, Head(s)))
         ELSE (IF cur = <<>> THEN <<>> ELSE <<cur>>) \o WordRuns(Tail(s), <<>>)

\* The default analyzer: lowercase, then the tokens of the pattern
\* (?u)\b\w\w+\b, the runs of two or more word characters.
build_analyzer(s) == SelectSeq(WordRuns(lower(s), <<>>), LAMBDA run : Len(run) >= 2)

\* The terms of one document for ngram_range = (n, n), n = 1 or 2.
Ngrams(s, n) == IF n = 1 THEN build_analyzer(s) ELSE get_bigrams(build_analyzer(s))

\* frame[column]
Column(frame, column) == [i \in DOMAIN frame |-> frame[i].data[column]]

\* CountVectorizer(ngram_range=(n, n)).fit(docs): the vocabulary; an empty
\* vocabulary raises ValueError.
CountVectorizer_fit(docs, n) ==
    LET vocabulary == UNION {Range(Ngrams(docs[i], n)) : i \in DOMAIN docs}
    IN  IF vocabulary = {} THEN ValueError
        ELSE [raised |-> FALSE, ngram |-> n, vocabulary |-> vocabulary]

\* vec.transform(docs): the counts of the terms of the vocabulary.
CountVectorizer_transform(fitted, docs) ==
    [i \in DOMAIN docs |->
        [t \in fitted.vocabulary |-> Occurrences(Ngrams(docs[i], fitted.ngram), t)]]

\* ln(k) for k = 1..8 in hundredths; the weights of the scikit-learn
\* sections are fixed-point numbers with two decimals.
Ln100 == <<0, 69, 110, 139, 161, 179, 195, 208>>

\* TfidfVectorizer(norm=None).fit(docs): the vocabulary and, with the default
\* smooth_idf, idf(t) = ln((1 + n) / (1 + df(t))) + 1, in hundredths.
TfidfVectorizer_fit(docs) ==
    LET vocabulary == UNION {Range(build_analyzer(docs[i])) : i \in DOMAIN docs}
        n == Len(docs)
        freq == [t \in vocabulary |->
                    Cardinality({i \in DOMAIN docs : t \in Range(build_analyzer(docs[i]))})]
    IN  IF vocabulary = {} THEN ValueError
        ELSE [raised |-> FALSE, ngram |-> 1, vocabulary |-> vocabulary,
              idf_ |-> [t \in vocabulary |-> 100 + Ln100[1 + n] - Ln100[1 + freq[t]]]]

\* vec.transform(docs) without normalization: count * idf, in hundredths.
TfidfVectorizer_transform(fitted, docs) ==
    [i \in DOMAIN docs |->
        [t \in fitted.vocabulary |->
            Occurrences(build_analyzer(docs[i]), t) * fitted.idf_[t]]]

\* x.multiply(y).sum() of two rows, in ten-thousandths.
Dot(x, y) == SumOver([t \in DOMAIN x |-> x[t] * y[t]], DOMAIN x)

\* The largest r in lo..hi-1 with r * r <= x.
RECURSIVE IsqrtIn(_, _, _)
IsqrtIn(x, lo, hi) ==
    IF hi - lo <= 1 THEN lo
    ELSE LET mid == (lo + hi) \div 2
         IN  IF mid * mid <= x THEN IsqrtIn(x, mid, hi) ELSE IsqrtIn(x, lo, mid)

\* np.sqrt of a sum of squares in ten-thousandths: the root in hundredths,
\* rounded down. It is 0 exactly when the sum is 0.
sqrt(x) == IsqrtIn(x, 0, Min(x + 1, 46340))

\* numerator / denominator in numpy: 0 / 0 is NaN (with a RuntimeWarning), no
\* exception. The quotient is in hundredths. A numerator here is a sum of
\* products with the very row whose length is in the denominator, so it is 0
\* whenever the denominator is: the quotient is never inf.
divide(x, y) == IF y = 0 THEN NaN ELSE Float((100 * x) \div y)

\* A division in which one zero denominator spoils every row.
cosine_ratio_spoiled(dots, alen, blens) ==
    [i \in DOMAIN dots |->
        IF \E j \in DOMAIN dots : alen * blens[j] = 0 THEN NaN
        ELSE divide(dots[i], alen * blens[i])]

\* dot / (a_len * b_len), lines 204 and 210: elementwise over the rows.
cosine_ratio(dots, alen, blens) ==
    [i \in DOMAIN dots |-> divide(dots[i], alen * blens[i])]

\* The warnings numpy gives for a result.
WarningsOf(ratios) ==
    IF \E i \in DOMAIN ratios : ratios[i].nan THEN {"RuntimeWarning"} ELSE {}

\* pd.DataFrame(matrix)[0]: the column as a Series with a RangeIndex.
AsSeries(column) == [i \in DOMAIN column |-> [label |-> i - 1, value |-> column[i]]]

\* Series.sort_values(ascending=False): the largest value first, NaN last;
\* the default sort is not stable and `order` is the way this build leaves
\* equal values.
sort_values_ascending_False(series, order) ==
    LET n == Len(series)
        tie(j, i) == IF order = "stable" THEN j < i ELSE j > i
        before(i) ==
            {j \in 1..n :
                IF series[i].value.nan
                THEN ~series[j].value.nan \/ (series[j].value.nan /\ tie(j, i))
                ELSE /\ ~series[j].value.nan
                     /\ \/ series[j].value.value > series[i].value.value
                        \/ (series[j].value.value = series[i].value.value /\ tie(j, i))}
    IN  [p \in 1..n |-> series[CHOOSE i \in 1..n : Cardinality(before(i)) = p - 1]]

\* Line 216: the [:10] of the ranking.
top_n == 10

IndexError == [raised |-> TRUE, error |-> "IndexError"]
NotImplementedError == [raised |-> TRUE, error |-> "NotImplementedError"]

\* A predict_spam that answers instead of raising.
predict_spam_answering(fitted, new_text) ==
    [raised |-> FALSE, x_new |-> TfidfVectorizer_transform(fitted, <<new_text>>)[1],
     value |-> "ham"]

\* predict_spam(new_text), lines 265-268: the vector of the text, then the
\* raise; no value is returned.
predict_spam(fitted, new_text) ==
    [raised |-> TRUE, error |-> NotImplementedError.error,
     x_new |-> TfidfVectorizer_transform(fitted, <<new_text>>)[1]]

\* The two texts of lines 270-271.
MeetYou ==
    <<"m","e","e","t"," ","y","o","u"," ","a","t"," ","j","u","r","o","n","g"," ",
      "p","l","a","c","e">>
FreeCash == <<"f","r","e","e"," ","c","a","s","h">>

(***************************************************************************)
(* Notebook 10.2: the globals and the cells                                *)
(***************************************************************************)
NoException == [raised |-> FALSE, error |-> "none"]

\* The globals of the scikit-learn sections before any of their cells ran.
\* stdout holds the printed lines, each with the cell that printed it.
VSMNamespace(order) ==
    [order |-> order, vec |-> Unset, tf_sparse |-> Unset, out94 |-> Unset,
     tf_idf_sparse |-> Unset, a |-> Unset, b |-> Unset, B |-> Unset, dot |-> Unset,
     a_len |-> Unset, b_len |-> Unset, out186 |-> Unset, out204 |-> Unset,
     cos_similarities |-> Unset, most_similar |-> Unset,
     X_train |-> Unset, X_train_len |-> Unset, y_train |-> Unset,
     x_new |-> Unset, calls |-> <<>>, stdout |-> <<>>, warnings |-> {},
     exception |-> NoException, stopped_at |-> "none"]

\* An exception that leaves the cell `cell`.
Raise(env, cell, exc) ==
    [env EXCEPT !.exception = [raised |-> TRUE, error |-> exc.error], !.stopped_at = cell]

\* Lines 177-186: messages 0 and 2; a matrix of fewer than three rows has
\* no row 2.
PairCell(env) ==
    IF Len(env.tf_idf_sparse) < 3
    THEN Raise([env EXCEPT !.a = env.tf_idf_sparse[1]], "pair", IndexError)
    ELSE LET x == env.tf_idf_sparse[1]
             y == env.tf_idf_sparse[3]
             alen == sqrt(Dot(x, x))
             blen == sqrt(Dot(y, y))
             out == divide(Dot(x, y), alen * blen)
         IN  [env EXCEPT !.a = x, !.b = y, !.dot = Dot(x, y), !.a_len = alen,
                         !.b_len = blen, !.out186 = out,
                         !.warnings = @ \cup WarningsOf(<<out>>)]

\* Lines 270-271: print(predict_spam(text)) for each text in turn; a raising
\* call ends the cell before its print and before the calls after it.
RECURSIVE PrintPredictions(_, _)
PrintPredictions(env, new_texts) ==
    IF new_texts = <<>> THEN env
    ELSE LET result == predict_spam(env.vec, Head(new_texts))
             called == [env EXCEPT !.calls = Append(@, Head(new_texts)),
                                   !.x_new = result.x_new]
         IN  IF result.raised THEN Raise(called, "exercise", result)
             ELSE PrintPredictions(
                     [called EXCEPT !.stdout =
                         Append(@, [cell |-> "exercise", line |-> result.value])],
                     Tail(new_texts))

\* Lines 259-271.
ExerciseCell(env, frame) ==
    LET docs == Column(frame, "text")
        fitted == TfidfVectorizer_fit(docs)
    IN  IF fitted.raised THEN Raise([env EXCEPT !.vec = "unfitted"], "exercise", fitted)
        ELSE LET X == TfidfVectorizer_transform(fitted, docs)
                 ready == [env EXCEPT !.vec = fitted, !.X_train = X,
                              !.X_train_len = [i \in DOMAIN X |-> sqrt(Dot(X[i], X[i]))],
                              !.y_train = Column(frame, "label")]
             IN  PrintPredictions(ready, <<MeetYou, FreeCash>>)

\* The messages the corpora are made of: no word at all, a one-letter word
\* (no token for scikit-learn), words, a repeated word in two cases,
\* punctuation and digits inside words.
Messages ==
    << [label |-> "ham", text |-> <<"7", " ", ".">>],
       [label |-> "ham", text |-> <<"a">>],
       [label |-> "ham", text |-> <<"g", "o">>],
       [label |-> "spam", text |-> <<"H", "i", " ", "h", "i", " ", "g", "o">>],
       [label |-> "ham", text |-> <<"a", "t", ",", " ", "7", "g", "o">>],
       [label |-> "spam", text |-> <<"t", "o", "_", "g", "o", " ", "h", "i">>] >>

MaxDocs == 3
MaxSms == 102

\* read_csv: the messages under the RangeIndex 0..n-1.
Frame(picks) == [i \in DOMAIN picks |-> [label |-> i - 1, data |-> Messages[picks[i]]]]

\* Every corpus of up to MaxDocs messages.
SmallCorpora ==
    {Frame(picks) : picks \in UNION {[1..n -> DOMAIN Messages] : n \in 0..MaxDocs}}

\* Corpora around the stop of the slice of line 51.
LongCorpora ==
    {Frame([i \in 1..n |-> (((i - 1) * pat) % Len(Messages)) + 1]) :
        n \in (loc_stop - 1)..MaxSms, pat \in Patterns}

\* After the cell of lines 23-32 has read the corpus.
InitTF ==
    /\ sms \in SmallCorpora \cup LongCorpora
    /\ bag_of_words = Unset /\ tf = Unset /\ df = Unset /\ idf = Unset /\ tf_idf = Unset
    /\ vsm = VSMNamespace("stable")
    /\ pcVSM = "bag_of_words"
    /\ TextIdle /\ ValIdle /\ KNNIdle

InitVSM ==
    /\ sms \in SmallCorpora
    /\ bag_of_words = Unset /\ tf = Unset /\ df = Unset /\ idf = Unset /\ tf_idf = Unset
    /\ \E order \in {"stable", "reversed"} : vsm = VSMNamespace(order)
    /\ pcVSM = "bag_of_words"
    /\ TextIdle /\ ValIdle /\ KNNIdle

\* Lines 50-55.
CellBag ==
    /\ pcVSM = "bag_of_words"
    /\ bag_of_words' =
          LET selected == loc(sms, loc_stop, "text")
          IN  [i \in DOMAIN selected |->
                  [label |-> selected[i].label,
                   value |-> Counter(LetterWords(selected[i].value))]]
    /\ pcVSM' = "tf"
    /\ UNCHANGED <<sms, tf, df, idf, tf_idf, vsm>>
    /\ UNCHANGED <<textVars, valVars, knnVars>>

\* Line 62: tf = pd.DataFrame(list(bag_of_words))
CellTF ==
    /\ pcVSM = "tf"
    /\ tf' = DataFrame([i \in DOMAIN bag_of_words |-> bag_of_words[i].value])
    /\ pcVSM' = "fillna"
    /\ UNCHANGED <<sms, bag_of_words, df, idf, tf_idf, vsm>>
    /\ UNCHANGED <<textVars, valVars, knnVars>>

\* Line 67: tf = tf.fillna(0)
CellFillna ==
    /\ pcVSM = "fillna"
    /\ tf' = fillna(tf, 0)
    /\ pcVSM' = "count"
    /\ UNCHANGED <<sms, bag_of_words, df, idf, tf_idf, vsm>>
    /\ UNCHANGED <<textVars, valVars, knnVars>>

\* Lines 79-86. A raising cell stops the run.
CellCountVectorizer ==
    /\ pcVSM = "count"
    /\ LET docs == Column(sms, "text")
           fitted == CountVectorizer_fit(docs, 1)
       IN  vsm' = IF fitted.raised
                  THEN Raise([vsm EXCEPT !.vec = "unfitted"], "count", fitted)
                  ELSE [vsm EXCEPT !.vec = fitted,
                                   !.tf_sparse = CountVectorizer_transform(fitted, docs)]
    /\ pcVSM' = IF vsm'.exception.raised THEN "error" ELSE "bigram"
    /\ UNCHANGED <<sms, bag_of_words, tf, df, idf, tf_idf>>
    /\ UNCHANGED <<textVars, valVars, knnVars>>

\* Lines 92-94.
CellBigramVectorizer ==
    /\ pcVSM = "bigram"
    /\ LET docs == Column(sms, "text")
           fitted == CountVectorizer_fit(docs, 2)
       IN  vsm' = IF fitted.raised
                  THEN Raise([vsm EXCEPT !.vec = "unfitted"], "bigram", fitted)
                  ELSE [vsm EXCEPT !.vec = fitted,
                                   !.out94 = CountVectorizer_transform(fitted, docs)]
    /\ pcVSM' = IF vsm'.exception.raised THEN "error" ELSE "df"
    /\ UNCHANGED <<sms, bag_of_words, tf, df, idf, tf_idf>>
    /\ UNCHANGED <<textVars, valVars, knnVars>>

\* Line 118: df = (tf > 0).sum(axis=0)
CellDF ==
    /\ pcVSM = "df"
    /\ df' = DocumentFrequencies(tf)
    /\ pcVSM' = "idf"
    /\ UNCHANGED <<sms, bag_of_words, tf, idf, tf_idf, vsm>>
    /\ UNCHANGED <<textVars, valVars, knnVars>>

\* Line 122: idf = np.log(len(tf) / df)
CellIDF ==
    /\ pcVSM = "idf"
    /\ idf' = InverseDocumentFrequencies(Len(tf.rows), df)
    /\ pcVSM' = "tf_idf"
    /\ UNCHANGED <<sms, bag_of_words, tf, df, tf_idf, vsm>>
    /\ UNCHANGED <<textVars, valVars, knnVars>>

\* Line 126: tf_idf = tf * idf
CellTfIdf ==
    /\ pcVSM = "tf_idf"
    /\ tf_idf' = TfIdf(tf, idf)
    /\ pcVSM' = "tfidf"
    /\ UNCHANGED <<sms, bag_of_words, tf, df, idf, vsm>>
    /\ UNCHANGED <<textVars, valVars, knnVars>>

\* Lines 134-137.
CellTfidfVectorizer ==
    /\ pcVSM = "tfidf"
    /\ LET docs == Column(sms, "text")
           fitted == TfidfVectorizer_fit(docs)
       IN  vsm' = IF fitted.raised
                  THEN Raise([vsm EXCEPT !.vec = "unfitted"], "tfidf", fitted)
                  ELSE [vsm EXCEPT !.vec = fitted,
                                   !.tf_idf_sparse = TfidfVectorizer_transform(fitted, docs)]
    /\ pcVSM' = IF vsm'.exception.raised THEN "error" ELSE "pair"
    /\ UNCHANGED <<sms, bag_of_words, tf, df, idf, tf_idf>>
    /\ UNCHANGED <<textVars, valVars, knnVars>>

\* Lines 177-186.
CellPair ==
    /\ pcVSM = "pair"
    /\ vsm' = PairCell(vsm)
    /\ pcVSM' = IF vsm'.exception.raised THEN "error" ELSE "dot"
    /\ UNCHANGED <<sms, bag_of_words, tf, df, idf, tf_idf>>
    /\ UNCHANGED <<textVars, valVars, knnVars>>

\* Lines 192-195.
CellDot ==
    /\ pcVSM = "dot"
    /\ LET x == vsm.tf_idf_sparse[1]
       IN  vsm' = [vsm EXCEPT
                      !.a = x, !.B = vsm.tf_idf_sparse,
                      !.dot = [i \in DOMAIN vsm.tf_idf_sparse |->
                                  Dot(x, vsm.tf_idf_sparse[i])]]
    /\ pcVSM' = "lengths"
    /\ UNCHANGED <<sms, bag_of_words, tf, df, idf, tf_idf>>
    /\ UNCHANGED <<textVars, valVars, knnVars>>

\* Lines 198-201.
CellLengths ==
    /\ pcVSM = "lengths"
    /\ LET alen == sqrt(Dot(vsm.a, vsm.a))
       IN  vsm' = [vsm EXCEPT
                      !.a_len = alen,
                      !.b_len = [i \in DOMAIN vsm.B |-> sqrt(Dot(vsm.B[i], vsm.B[i]))],
                      !.stdout = Append(@, [cell |-> "lengths", line |-> alen])]
    /\ pcVSM' = "ratio"
    /\ UNCHANGED <<sms, bag_of_words, tf, df, idf, tf_idf>>
    /\ UNCHANGED <<textVars, valVars, knnVars>>

\* Line 204.
CellRatio ==
    /\ pcVSM = "ratio"
    /\ LET out == cosine_ratio(vsm.dot, vsm.a_len, vsm.b_len)
       IN  vsm' = [vsm EXCEPT !.out204 = out, !.warnings = @ \cup WarningsOf(out)]
    /\ pcVSM' = "rank"
    /\ UNCHANGED <<sms, bag_of_words, tf, df, idf, tf_idf>>
    /\ UNCHANGED <<textVars, valVars, knnVars>>

\* Lines 210-212.
CellRank ==
    /\ pcVSM = "rank"
    /\ LET out == cosine_ratio(vsm.dot, vsm.a_len, vsm.b_len)
           series == AsSeries(out)
       IN  vsm' = [vsm EXCEPT
                      !.cos_similarities = series,
                      !.most_similar = sort_values_ascending_False(series, vsm.order),
                      !.warnings = @ \cup WarningsOf(out)]
    /\ pcVSM' = "similar"
    /\ UNCHANGED <<sms, bag_of_words, tf, df, idf, tf_idf>>
    /\ UNCHANGED <<textVars, valVars, knnVars>>

\* Lines 216-217: print(i, text) for the ten most similar messages.
CellSimilar ==
    /\ pcVSM = "similar"
    /\ LET top == SliceTo(vsm.most_similar, top_n)
       IN  vsm' = [vsm EXCEPT !.stdout =
                      @ \o [p \in DOMAIN top |->
                              [cell |-> "similar",
                               line |-> <<top[p].label,
                                          sms[top[p].label + 1].data["text"]>>]]]
    /\ pcVSM' = "exercise"
    /\ UNCHANGED <<sms, bag_of_words, tf, df, idf, tf_idf>>
    /\ UNCHANGED <<textVars, valVars, knnVars>>

\* Lines 259-271. The cell is left by an exception or after its last print.
CellExercise ==
    /\ pcVSM = "exercise"
    /\ vsm' = ExerciseCell(vsm, sms)
    /\ pcVSM' = IF vsm'.exception.raised THEN "error" ELSE "done"
    /\ UNCHANGED <<sms, bag_of_words, tf, df, idf, tf_idf>>
    /\ UNCHANGED <<textVars, valVars, knnVars>>

\* The cells up to the from-scratch TF-IDF.
NextTF ==
    \/ CellBag
    \/ CellTF
    \/ CellFillna
    \/ CellCountVectorizer
    \/ CellBigramVectorizer
    \/ CellDF
    \/ CellIDF
    \/ CellTfIdf

NextVSM ==
    \/ CellBag
    \/ CellTF
    \/ CellFillna
    \/ CellCountVectorizer
    \/ CellBigramVectorizer
    \/ CellDF
    \/ CellIDF
    \/ CellTfIdf
    \/ CellTfidfVectorizer
    \/ CellPair
    \/ CellDot
    \/ CellLengths
    \/ CellRatio
    \/ CellRank
    \/ CellSimilar
    \/ CellExercise

\* The from-scratch sections, also on corpora longer than the slice.
SpecTF == InitTF /\ [][NextTF]_vars

\* The whole notebook on the small corpora.
SpecVSM == InitVSM /\ [][NextVSM]_vars

(***************************************************************************)
(* Properties of notebook 10.2                                             *)
(***************************************************************************)
\* The cells in the order of the notebook.
CellOrder ==
    <<"bag_of_words", "tf", "fillna", "count", "bigram", "df", "idf", "tf_idf",
      "tfidf", "pair", "dot", "lengths", "ratio", "rank", "similar", "exercise", "done">>
Position(at) ==
    IF at \in Range(CellOrder) THEN CHOOSE i \in DOMAIN CellOrder : CellOrder[i] = at ELSE 0

\* The cell `cell` has run to its end: the run is past it, or stopped in a
\* later cell.
HasRun(cell) ==
    Position(IF pcVSM = "error" THEN vsm.stopped_at ELSE pcVSM) > Position(cell)

\* The documents selected by line 51 and their words.
Selected == loc(sms, loc_stop, "text")
SelectedWords == [d \in DOMAIN Selected |-> LetterWords(Selected[d].value)]

\* C11: after tf = DataFrame(list(bag_of_words)).fillna(0) there is one row
\* per selected document and one column per distinct word of the selected
\* documents; the cell for document d and word t is the number of
\* occurrences of t in d, and it is 0, never missing, when t does not occur
\* in d.
C11_TermFrequency ==
    HasRun("fillna") =>
        /\ DOMAIN tf.rows = DOMAIN Selected
        /\ tf.columns = UNION {Range(SelectedWords[d]) : d \in DOMAIN Selected}
        /\ \A d \in DOMAIN tf.rows : \A t \in tf.columns :
              /\ ~tf.rows[d][t].nan
              /\ tf.rows[d][t].value = Occurrences(SelectedWords[d], t)
              /\ t \notin Range(SelectedWords[d]) => tf.rows[d][t] = Float(0)

\* Right after the fillna: a word that occurs twice in one document and not
\* at all in another.
C11_Witness ==
    /\ pcVSM = "count"
    /\ \E d, e \in DOMAIN tf.rows : \E t \in tf.columns :
          /\ tf.rows[d][t] = Float(2)
          /\ tf.rows[e][t] = Float(0)
          /\ t \notin Range(SelectedWords[e])

\* C12: the selection sms.loc[:100, "text"] yields the first 100 messages of
\* the corpus, so that tf has 100 rows and len(tf) = 100 in the IDF formula
\* (for a corpus of at least 100 messages).
C12_First100 ==
    Len(sms) >= 100 =>
        /\ HasRun("bag_of_words") => Len(bag_of_words) = 100
        /\ HasRun("tf") => Len(tf.rows) = 100

\* A logarithm that is exactly 0.
IsZero(w) == ~w.nan /\ (w.coef = 0 \/ w.num = w.den)

\* C13: df(t) is the number of documents whose term frequency for t is
\* greater than 0, idf(t) = log(number of documents / df(t)) and
\* tf_idf(d, t) = tf(d, t) * idf(t); a term that occurs in every document
\* gets weight 0 in every document, and a cell is 0 whenever the term is
\* absent from that document.
C13_TfIdf ==
    LET N == Len(tf.rows)
        containing(t) == {d \in DOMAIN SelectedWords : t \in Range(SelectedWords[d])}
    IN  /\ HasRun("df") =>
              \A t \in tf.columns :
                  /\ df[t] = Cardinality(containing(t))
                  /\ df[t] >= 1 /\ df[t] <= N
        /\ HasRun("idf") =>
              \A t \in tf.columns :
                  \* idf(t) is the logarithm of N / df(t)
                  /\ ~idf[t].nan
                  /\ idf[t].coef = (IF df[t] = N THEN 0 ELSE 1)
                  /\ df[t] < N => idf[t].num * df[t] = N * idf[t].den
                  /\ IsZero(idf[t]) <=> df[t] = N
        /\ HasRun("tf_idf") =>
              /\ tf_idf.columns = tf.columns
              /\ DOMAIN tf_idf.rows = DOMAIN tf.rows
              /\ \A d \in DOMAIN tf.rows : \A t \in tf.columns :
                    LET w == tf_idf.rows[d][t]
                        count == Occurrences(SelectedWords[d], t)
                    IN  /\ ~w.nan
                        /\ IsZero(w) <=> (count = 0 \/ df[t] = N)
                        /\ ~IsZero(w) =>
                              /\ w.coef = count
                              /\ w.num * df[t] = N * w.den
                        /\ df[t] = N => w = LogZero
                        /\ count = 0 => w = LogZero

\* After line 126: of two documents one term occurs in both (weight 0
\* everywhere) and another in one of them only, with a weight that is not 0
\* there and 0 in the other.
C13_Witness ==
    /\ pcVSM = "tfidf"
    /\ Len(tf.rows) >= 2
    /\ \E t, u \in tf.columns :
          /\ df[t] = Len(tf.rows)
          /\ \A d \in DOMAIN tf.rows : tf.rows[d][t].value > 0 /\ tf_idf.rows[d][t] = LogZero
          /\ \E d, e \in DOMAIN tf.rows :
                /\ ~IsZero(tf_idf.rows[d][u])
                /\ tf_idf.rows[d][u].coef = 2
                /\ tf.rows[e][u].value = 0 /\ tf_idf.rows[e][u] = LogZero

\* The similarity of row i is the quotient of line 204.
ComputedNormally(i) ==
    /\ ~vsm.out204[i].nan
    /\ vsm.out204[i].value = (100 * vsm.dot[i]) \div (vsm.a_len * vsm.b_len[i])
    /\ vsm.out204[i].value >= 0

\* What C14 says of every row once line 204 has run, `undefined` naming the
\* rows whose similarity is not a number: a message without a word of the
\* vocabulary has length 0; the undefined rows get NaN (the numerator being
\* 0 too) under a RuntimeWarning, every other row the quotient; neither the
\* division nor the ranking raises, and the ranking puts the NaN rows last.
DivideByZeroClaim(undefined) ==
    /\ HasRun("lengths") =>
          \A i \in DOMAIN vsm.b_len :
              vsm.b_len[i] = 0 <=> build_analyzer(sms[i].data["text"]) = <<>>
    /\ HasRun("ratio") =>
          /\ DOMAIN vsm.out204 = DOMAIN sms
          /\ \A i \in DOMAIN vsm.out204 :
                IF i \in undefined
                THEN vsm.out204[i].nan /\ vsm.dot[i] = 0 /\ "RuntimeWarning" \in vsm.warnings
                ELSE ComputedNormally(i)
    /\ pcVSM = "error" => vsm.stopped_at \notin {"dot", "lengths", "ratio", "rank", "similar"}
    /\ HasRun("rank") =>
          /\ Len(vsm.most_similar) = Len(sms)
          /\ {vsm.most_similar[p].label : p \in DOMAIN vsm.most_similar} = Labels(sms)
          /\ \A p \in DOMAIN vsm.most_similar :
                vsm.most_similar[p].value = vsm.out204[vsm.most_similar[p].label + 1]
          /\ \A p, q \in DOMAIN vsm.most_similar :
                p < q =>
                    \/ vsm.most_similar[q].value.nan
                    \/ /\ ~vsm.most_similar[p].value.nan
                       /\ vsm.most_similar[p].value.value >= vsm.most_similar[q].value.value

\* C14 as stated: the similarity is undefined for the rows of the messages
\* without a word of the vocabulary (b_len = 0) and for those rows only.
C14_ThatRowOnly == DivideByZeroClaim({i \in DOMAIN sms : vsm.b_len[i] = 0})

\* C14 as amended: the similarity is undefined for exactly the rows whose
\* denominator a_len * b_len is 0; these are the rows with b_len = 0 when
\* message 0 has a word of the vocabulary, and all rows when it has none.
C14_DivideByZero ==
    DivideByZeroClaim({i \in DOMAIN sms : vsm.a_len = 0 \/ vsm.b_len[i] = 0})

\* The ranking has run on a corpus whose message 0 has words, with a message
\* that has none (NaN, ranked last) and another message that shares a word
\* with message 0.
C14_Witness ==
    /\ pcVSM = "similar"
    /\ vsm.a_len > 0
    /\ "RuntimeWarning" \in vsm.warnings
    /\ \E i, j \in DOMAIN vsm.out204 :
          /\ vsm.b_len[i] = 0 /\ vsm.out204[i].nan
          /\ j # 1 /\ ~vsm.out204[j].nan /\ vsm.out204[j].value > 0
          /\ vsm.most_similar[Len(vsm.most_similar)].label = i - 1

\* The texts predict_spam is tried on.
NewTexts == {Messages[i].text : i \in DOMAIN Messages} \cup {MeetYou, FreeCash}

\* C15: predict_spam raises NotImplementedError for every input text, after
\* computing the TF-IDF vector of the text and without returning a
\* prediction; the exercise cell therefore stops in its first call, for
\* "meet you at jurong place", having printed nothing, and the call for
\* "free cash" is never made.
C15_NotImplemented ==
    /\ pcVSM # "done"
    /\ pcVSM = "error" /\ vsm.stopped_at = "exercise" =>
          /\ vsm.exception = NotImplementedError
          /\ vsm.calls = <<MeetYou>>
          /\ vsm.x_new = TfidfVectorizer_transform(vsm.vec, <<MeetYou>>)[1]
          /\ \A k \in DOMAIN vsm.stdout : vsm.stdout[k].cell # "exercise"
          /\ \A text \in NewTexts :
                LET result == predict_spam(vsm.vec, text)
                IN  /\ result.raised
                    /\ result.error = "NotImplementedError"
                    /\ result.x_new = TfidfVectorizer_transform(vsm.vec, <<text>>)[1]

\* The exercise cell has stopped in its first call, on a corpus that knows a
\* word of the text ("at") and a word the text does not have.
C15_Witness ==
    /\ pcVSM = "error"
    /\ vsm.stopped_at = "exercise"
    /\ vsm.calls = <<MeetYou>>
    /\ \E t, u \in DOMAIN vsm.x_new : vsm.x_new[t] > 0 /\ vsm.x_new[u] = 0

====
